---- MODULE Spec2Model ----
(***************************************************************************)
(* parallel_runner.py: a pool of PoolWorker processes pulling tasks from a *)
(* shared multiprocessing queue, each commanded through its own pipe, and  *)
(* the CLIController whose listen_loop dispatches typed commands, collects *)
(* results and watches for the children's end.                             *)
(*                                                                         *)
(* Each worker is a process; one action is one of its operations on a      *)
(* shared object (the task queue, its pipe, the results queue) together    *)
(* with the process-local code that follows it.  A put() on the results    *)
(* queue only hands the result to the queue's feeder thread of that        *)
(* process, which writes it to the queue's pipe later; a process stays a   *)
(* child of the controller after run() has returned, until its feeder has  *)
(* written everything; Process.terminate() only sends SIGTERM, and the     *)
(* process runs on until the signal kills it.  The controller is one       *)
(* thread; one action is one stage of a listen_loop iteration, and in      *)
(* do_quit and do_terminate, which walk process_list, one action is the    *)
(* send or terminate() for one process: the workers run between two of     *)
(* them.  An empty line makes cmd.Cmd run the previous line again: it is   *)
(* the step of that line.                                                  *)
(***************************************************************************)
EXTENDS Integers, Sequences, FiniteSets

\* Bounds of the model.
NumTasks == 2        \* at most this many tasks are enqueued before the run
MaxCmds == 3         \* at most this many command lines are typed in a run

\* The pool: process names as do_enable / do_disable compare them.
Workers == {"w1", "w2"}
\* process_list, in the order the do_* methods walk it
ProcessList == <<"w1", "w2">>
\* A name that matches no registered worker.
Nobody == "nobody"
Names == Workers \cup {Nobody}
\* A child process of the program that is not in process_list.
OtherChild == "other"

NoTask == 0
Commands == {"wait", "resume", "end"}

\* The lines typed, as <<verb>> or <<verb, name>>: the do_* methods, a line
\* cmd.Cmd knows no method for, and the empty line buffer.
NoLine == <<>>
Unknown == <<"frobnicate">>
Lines ==
    {NoLine, Unknown, <<"list">>, <<"quit">>, <<"terminate">>}
    \cup {<<"enable", who>> : who \in Names}
    \cup {<<"disable", who>> : who \in Names}

VARIABLES
    tasks,      \* self._t: the shared task queue, a FIFO of task parameters
    results,    \* the results queue's pipe: the results get() can return, in order
    outq,       \* whether a results queue is configured (results_queue is not None)
    chan,       \* chan[w]: commands sent on w's pipe and not yet received
    wait,       \* wait[w]: self._wait
    pc,         \* pc[w]: where process w is in PoolWorker.run
    held,       \* held[w]: the task w is computing job() on, or NoTask
    live,       \* live[w]: process w has not exited (it is an active child)
    sig,        \* sig[w]: terminate() has sent SIGTERM to process w
    feed,       \* feed[w]: results w has put() that its feeder has yet to write
    torn,       \* the results pipe ends in a message cut short by a kill
    lpc,        \* where the controller is in listen_loop
    nxt,        \* inside do_quit / do_terminate: index in process_list of the
                \* process the loop handles next; 0 outside them
    collected,  \* the results callback() was called with, in call order
    ndisp,      \* number of command lines dispatched so far (bounded by MaxCmds)
    enq,        \* history: number of tasks enqueued before the run
    pulled,     \* history: pulled[w] is the sequence of tasks w got from the queue
    sent,       \* history: sent[w] is every command ever sent on w's pipe, in order
    midjob,     \* history: the workers sent a command while inside job()
    restored,   \* number of times termios.tcsetattr(.., old_settings) has run
    lastcmd,    \* the line onecmd() ran in this iteration of listen_loop
    pushed,     \* history: pushed[w] is the tasks whose result w handed to put()
    drained     \* history: number of results taken by the final collection

vars == <<tasks, results, outq, chan, wait, pc, held, live, sig, feed, torn,
          lpc, nxt, collected, ndisp, enq, pulled, sent, midjob,
          restored, lastcmd, pushed, drained>>

----------------------------------------------------------------------------
\* What a Python function that ends without `return` returns.
None == "None"

\* lines 51-56: PoolWorker.job is `pass`, whatever prm is
Job(prm) == None

\* The values job() can return.
ResultValues == {Job(t) : t \in 1..NumTasks}

Range(s) == {s[i] : i \in 1..Len(s)}

\* The process is inside PoolWorker.run.
InRun(w) == pc[w] \in {"head", "poll", "get", "job"}

\* run() is over: it returned, job() raised or the process was killed in it.
RunOver(w) == pc[w] \in {"done", "failed", "killed"}

\* Process.is_alive()
Alive(w) == live[w]

\* The workers that have not exited.
LiveWorkers == {w \in Workers : Alive(w)}

\* multiprocessing.active_children(): every child of the program that has not
\* exited, the live workers and the others alive at the time of the call.
ActiveChildren(others) == LiveWorkers \cup others

TypeOK ==
    /\ tasks \in Seq(1..NumTasks)
    /\ results \in Seq(ResultValues)
    /\ outq \in BOOLEAN
    /\ chan \in [Workers -> Seq(Commands)]
    /\ wait \in [Workers -> BOOLEAN]
    /\ pc \in [Workers -> {"head", "poll", "get", "job", "done", "failed", "killed"}]
    /\ held \in [Workers -> 0..NumTasks]
    /\ live \in [Workers -> BOOLEAN]
    /\ sig \in [Workers -> BOOLEAN]
    /\ feed \in [Workers -> Seq(ResultValues)]
    /\ torn \in BOOLEAN
    /\ lpc \in {"input", "quit", "terminate", "results", "alive", "drain",
               "returned", "raised", "hung"}
    /\ nxt \in 0..Len(ProcessList)
    /\ (nxt # 0) = (lpc \in {"quit", "terminate"})
    /\ collected \in Seq(ResultValues)
    /\ ndisp \in 0..MaxCmds
    /\ enq \in 0..NumTasks
    /\ pulled \in [Workers -> Seq(1..NumTasks)]
    /\ sent \in [Workers -> Seq(Commands)]
    /\ midjob \subseteq Workers
    /\ restored \in Nat
    /\ lastcmd \in Lines
    /\ pushed \in [Workers -> Seq(1..NumTasks)]
    /\ drained \in Nat
    /\ \A w \in Workers : InRun(w) => live[w]

\* PoolWorker.__init__ for every worker, the tasks already in the queue, the
\* processes started and listen_loop entered.
Init ==
    /\ enq \in 0..NumTasks
    /\ tasks = [i \in 1..enq |-> i]
    /\ results = <<>>
    /\ outq \in BOOLEAN
    /\ chan = [w \in Workers |-> <<>>]
    /\ wait = [w \in Workers |-> TRUE]
    /\ pc = [w \in Workers |-> "head"]
    /\ held = [w \in Workers |-> NoTask]
    /\ live = [w \in Workers |-> TRUE]
    /\ sig = [w \in Workers |-> FALSE]
    /\ feed = [w \in Workers |-> <<>>]
    /\ torn = FALSE
    /\ lpc = "input"
    /\ nxt = 0
    /\ collected = <<>>
    /\ ndisp = 0
    /\ pulled = [w \in Workers |-> <<>>]
    /\ sent = [w \in Workers |-> <<>>]
    /\ midjob = {}
    /\ restored = 0
    /\ lastcmd = NoLine
    /\ pushed = [w \in Workers |-> <<>>]
    /\ drained = 0

----------------------------------------------------------------------------
\* PoolWorker.run

\* A loop test that only a Running worker makes: a Paused worker goes round
\* whatever the task queue holds.
LoopHeadPausedStays(w) ==
    /\ pc[w] = "head"
    /\ pc' = [pc EXCEPT ![w] =
                IF tasks = <<>> /\ ~wait[w] THEN "done" ELSE "poll"]
    /\ UNCHANGED <<tasks, results, outq, chan, wait, held, live, sig, feed,
                   torn, lpc, nxt, collected, ndisp, enq, pulled, sent,
                   midjob, restored, lastcmd, pushed, drained>>

\* line 26: while not self._t.empty()
LoopHead(w) ==
    /\ pc[w] = "head"
    /\ pc' = [pc EXCEPT ![w] = IF tasks = <<>> THEN "done" ELSE "poll"]
    /\ UNCHANGED <<tasks, results, outq, chan, wait, held, live, sig, feed,
                   torn, lpc, nxt, collected, ndisp, enq, pulled, sent,
                   midjob, restored, lastcmd, pushed, drained>>

\* A `wait` that is received and leaves self._wait as it was.
WaitAfterForgetWait(cmd, cur) ==
    CASE cmd = "resume" -> FALSE
      [] OTHER -> cur

\* A `resume` that is received and leaves self._wait as it was.
WaitAfterForgetResume(cmd, cur) ==
    CASE cmd = "wait" -> TRUE
      [] OTHER -> cur

\* lines 30-36: the value of self._wait after command cmd
WaitAfter(cmd, cur) ==
    CASE cmd = "wait" -> TRUE
      [] cmd = "resume" -> FALSE
      [] OTHER -> cur

\* An `end` that is received and then ignored.
AfterCmdIgnoreEnd(cmd, w8) ==
    CASE cmd = "wait" -> "head"
      [] OTHER -> IF w8 THEN "head" ELSE "get"

\* lines 30-40: where run() goes after receiving cmd with self._wait = w8
\* afterwards: "wait" continues, "end" returns, otherwise the wait check.
AfterCmd(cmd, w8) ==
    CASE cmd = "wait" -> "head"
      [] cmd = "end" -> "done"
      [] OTHER -> IF w8 THEN "head" ELSE "get"

\* A command check without the wait check of lines 38-40: unless the command
\* was `wait` or `end`, the worker goes on to get().
PollCmdNoBackoff(w) ==
    /\ pc[w] = "poll"
    /\ IF chan[w] # <<>>
         THEN LET cmd == Head(chan[w])
                  w8 == WaitAfter(cmd, wait[w])
              IN /\ chan' = [chan EXCEPT ![w] = Tail(chan[w])]
                 /\ wait' = [wait EXCEPT ![w] = w8]
                 /\ pc' = [pc EXCEPT ![w] = AfterCmd(cmd, FALSE)]
         ELSE /\ pc' = [pc EXCEPT ![w] = "get"]
              /\ UNCHANGED <<chan, wait>>
    /\ UNCHANGED <<tasks, results, outq, held, live, sig, feed, torn, lpc,
                   nxt, collected, ndisp, enq, pulled, sent, midjob, restored,
                   lastcmd, pushed, drained>>

\* A command check that empties the pipe and applies only the newest command.
PollCmdLatest(w) ==
    /\ pc[w] = "poll"
    /\ IF chan[w] # <<>>
         THEN LET cmd == chan[w][Len(chan[w])]
                  w8 == WaitAfter(cmd, wait[w])
              IN /\ chan' = [chan EXCEPT ![w] = <<>>]
                 /\ wait' = [wait EXCEPT ![w] = w8]
                 /\ pc' = [pc EXCEPT ![w] = AfterCmd(cmd, w8)]
         ELSE /\ pc' = [pc EXCEPT ![w] = IF wait[w] THEN "head" ELSE "get"]
              /\ UNCHANGED <<chan, wait>>
    /\ UNCHANGED <<tasks, results, outq, held, live, sig, feed, torn, lpc,
                   nxt, collected, ndisp, enq, pulled, sent, midjob, restored,
                   lastcmd, pushed, drained>>

\* lines 28-40: poll the pipe, apply at most one command, then the wait check
\* (time.sleep(3) and continue when self._wait).
PollCmd(w) ==
    /\ pc[w] = "poll"
    /\ IF chan[w] # <<>>
         THEN LET cmd == Head(chan[w])
                  w8 == WaitAfter(cmd, wait[w])
              IN /\ chan' = [chan EXCEPT ![w] = Tail(chan[w])]
                 /\ wait' = [wait EXCEPT ![w] = w8]
                 /\ pc' = [pc EXCEPT ![w] = AfterCmd(cmd, w8)]
         ELSE /\ pc' = [pc EXCEPT ![w] = IF wait[w] THEN "head" ELSE "get"]
              /\ UNCHANGED <<chan, wait>>
    /\ UNCHANGED <<tasks, results, outq, held, live, sig, feed, torn, lpc,
                   nxt, collected, ndisp, enq, pulled, sent, midjob, restored,
                   lastcmd, pushed, drained>>

\* A get() that returns the first task and leaves it in the queue.
GetTaskPeek(w) ==
    /\ pc[w] = "get"
    /\ tasks # <<>>
    /\ held' = [held EXCEPT ![w] = Head(tasks)]
    /\ pulled' = [pulled EXCEPT ![w] = Append(pulled[w], Head(tasks))]
    /\ pc' = [pc EXCEPT ![w] = "job"]
    /\ UNCHANGED <<tasks, results, outq, chan, wait, live, sig, feed, torn,
                   lpc, nxt, collected, ndisp, enq, sent, midjob, restored,
                   lastcmd, pushed, drained>>

\* line 42: self._t.get() blocks until the queue holds a task, then removes
\* and returns the first one; job() starts on it.
GetTask(w) ==
    /\ pc[w] = "get"
    /\ tasks # <<>>
    /\ held' = [held EXCEPT ![w] = Head(tasks)]
    /\ tasks' = Tail(tasks)
    /\ pulled' = [pulled EXCEPT ![w] = Append(pulled[w], Head(tasks))]
    /\ pc' = [pc EXCEPT ![w] = "job"]
    /\ UNCHANGED <<results, outq, chan, wait, live, sig, feed, torn, lpc, nxt,
                   collected, ndisp, enq, sent, midjob, restored, lastcmd,
                   pushed, drained>>

\* A job() whose result is never put on the results queue.
JobReturnLose(w) ==
    /\ pc[w] = "job"
    /\ held' = [held EXCEPT ![w] = NoTask]
    /\ pc' = [pc EXCEPT ![w] = "head"]
    /\ UNCHANGED <<tasks, results, outq, chan, wait, live, sig, feed, torn,
                   lpc, nxt, collected, ndisp, enq, pulled, sent, midjob,
                   restored, lastcmd, pushed, drained>>

\* A worker that looks for `end` when job() returns, before the put, and
\* returns at once when it finds one.
JobReturnChecksEnd(w) ==
    /\ pc[w] = "job"
    /\ IF chan[w] # <<>> /\ Head(chan[w]) = "end"
         THEN /\ chan' = [chan EXCEPT ![w] = Tail(chan[w])]
              /\ pc' = [pc EXCEPT ![w] = "done"]
              /\ UNCHANGED <<feed, pushed>>
         ELSE /\ feed' = IF outq
                           THEN [feed EXCEPT ![w] = Append(feed[w], Job(held[w]))]
                           ELSE feed
              /\ pushed' =
                    IF outq
                      THEN [pushed EXCEPT ![w] = Append(pushed[w], held[w])]
                      ELSE pushed
              /\ pc' = [pc EXCEPT ![w] = "head"]
              /\ UNCHANGED chan
    /\ held' = [held EXCEPT ![w] = NoTask]
    /\ UNCHANGED <<tasks, results, outq, wait, live, sig, torn, lpc, nxt,
                   collected, ndisp, enq, pulled, sent, midjob, restored,
                   lastcmd, drained>>

\* lines 42-45: job() returns; with a results queue, put() hands the result
\* to the feeder thread of this process; the loop goes round.
JobReturn(w) ==
    /\ pc[w] = "job"
    /\ feed' = IF outq
                 THEN [feed EXCEPT ![w] = Append(feed[w], Job(held[w]))]
                 ELSE feed
    /\ pushed' = IF outq
                   THEN [pushed EXCEPT ![w] = Append(pushed[w], held[w])]
                   ELSE pushed
    /\ held' = [held EXCEPT ![w] = NoTask]
    /\ pc' = [pc EXCEPT ![w] = "head"]
    /\ UNCHANGED <<tasks, results, outq, chan, wait, live, sig, torn, lpc,
                   nxt, collected, ndisp, enq, pulled, sent, midjob, restored,
                   lastcmd, drained>>

\* A worker that puts the task back on the task queue when job() raises.
JobRaiseRequeue(w) ==
    /\ pc[w] = "job"
    /\ tasks' = Append(tasks, held[w])
    /\ held' = [held EXCEPT ![w] = NoTask]
    /\ pc' = [pc EXCEPT ![w] = "failed"]
    /\ UNCHANGED <<results, outq, chan, wait, live, sig, feed, torn, lpc, nxt,
                   collected, ndisp, enq, pulled, sent, midjob, restored,
                   lastcmd, pushed, drained>>

\* line 42: job() raises; nothing catches it and run() is over.
JobRaise(w) ==
    /\ pc[w] = "job"
    /\ held' = [held EXCEPT ![w] = NoTask]
    /\ pc' = [pc EXCEPT ![w] = "failed"]
    /\ UNCHANGED <<tasks, results, outq, chan, wait, live, sig, feed, torn,
                   lpc, nxt, collected, ndisp, enq, pulled, sent, midjob,
                   restored, lastcmd, pushed, drained>>

----------------------------------------------------------------------------
\* The process around run()

\* line 44, later: the feeder thread of process w writes the oldest result
\* it was handed to the results pipe.  It cannot once the pipe ends in a torn
\* message, whose writer died holding the pipe's write lock.
Flush(w) ==
    /\ live[w]
    /\ feed[w] # <<>>
    /\ ~torn
    /\ results' = Append(results, Head(feed[w]))
    /\ feed' = [feed EXCEPT ![w] = Tail(feed[w])]
    /\ UNCHANGED <<tasks, outq, chan, wait, pc, held, live, sig, torn, lpc,
                   nxt, collected, ndisp, enq, pulled, sent, midjob, restored,
                   lastcmd, pushed, drained>>

\* A process whose run() is over exits, and stops being an active child,
\* once its feeder has written every result it was handed.
Exit(w) ==
    /\ pc[w] \in {"done", "failed"}
    /\ live[w]
    /\ feed[w] = <<>>
    /\ live' = [live EXCEPT ![w] = FALSE]
    /\ UNCHANGED <<tasks, results, outq, chan, wait, pc, held, sig, feed,
                   torn, lpc, nxt, collected, ndisp, enq, pulled, sent,
                   midjob, restored, lastcmd, pushed, drained>>

\* line 89, later: SIGTERM kills process w.  The results its feeder had not
\* written are lost, and the one it was writing may be left cut short in the
\* pipe.
Die(w) ==
    /\ sig[w]
    /\ live[w]
    /\ live' = [live EXCEPT ![w] = FALSE]
    /\ pc' = [pc EXCEPT ![w] = IF InRun(w) THEN "killed" ELSE pc[w]]
    /\ held' = [held EXCEPT ![w] = NoTask]
    /\ feed' = [feed EXCEPT ![w] = <<>>]
    /\ torn' \in (IF feed[w] # <<>> /\ ~torn THEN BOOLEAN ELSE {torn})
    /\ UNCHANGED <<tasks, results, outq, chan, wait, sig, lpc, nxt, collected,
                   ndisp, enq, pulled, sent, midjob, restored, lastcmd,
                   pushed, drained>>

----------------------------------------------------------------------------
\* CLIController

\* proc[1].send(cmd) for every registered process whose name is in whom
SendTo(whom, cmd) ==
    /\ chan' = [w \in Workers |->
                  IF w \in whom THEN Append(chan[w], cmd) ELSE chan[w]]
    /\ sent' = [w \in Workers |->
                  IF w \in whom THEN Append(sent[w], cmd) ELSE sent[w]]
    /\ midjob' = midjob \cup {w \in whom : pc[w] = "job"}

\* lines 124-137 with a whole line typed: onecmd(inp) runs one do_* method
Typed(line) ==
    /\ lpc = "input"
    /\ ndisp < MaxCmds
    /\ ndisp' = ndisp + 1
    /\ lastcmd' = line
    /\ lpc' = "results"

\* lines 79-81
DoList ==
    /\ Typed(<<"list">>)
    /\ UNCHANGED <<tasks, results, outq, chan, wait, pc, held, live, sig,
                   feed, torn, nxt, collected, enq, pulled, sent, midjob,
                   restored, pushed, drained>>

\* line 132 with a line no do_* method matches: cmd.Cmd.default() writes a
\* message and nothing else happens
DoDefault ==
    /\ Typed(Unknown)
    /\ UNCHANGED <<tasks, results, outq, chan, wait, pc, held, live, sig,
                   feed, torn, nxt, collected, enq, pulled, sent, midjob,
                   restored, pushed, drained>>

\* do_quit / do_terminate (verb) is about to handle the k-th process of
\* process_list: the first when the line has just been read, the others when
\* the loop `for proc in self._pl` has got there.
AtProc(verb, k) ==
    \/ k = 1 /\ lpc = "input" /\ ndisp < MaxCmds
    \/ k > 1 /\ lpc = verb /\ nxt = k

\* The k-th process handled, the loop of do_quit / do_terminate goes on to
\* the next one; after the last, onecmd(line) returns.
Handled(line, k) ==
    IF k = Len(ProcessList)
      THEN /\ lpc' = "results"
           /\ nxt' = 0
           /\ ndisp' = ndisp + 1
           /\ lastcmd' = line
      ELSE /\ lpc' = line[1]
           /\ nxt' = k + 1
           /\ UNCHANGED <<ndisp, lastcmd>>

\* line 85: proc[1].send('end') for the k-th process of process_list
DoQuitSend(k) ==
    /\ AtProc("quit", k)
    /\ SendTo({ProcessList[k]}, "end")
    /\ Handled(<<"quit">>, k)
    /\ UNCHANGED <<tasks, results, outq, wait, pc, held, live, sig, feed,
                   torn, collected, enq, pulled, restored, pushed, drained>>

\* lines 83-85: one send after the other
DoQuit == \E k \in 1..Len(ProcessList) : DoQuitSend(k)

\* line 89: proc[0].terminate() for the k-th process of process_list sends
\* it SIGTERM, if it has not exited, and returns.
DoTerminateProc(k) ==
    /\ AtProc("terminate", k)
    /\ sig' = [w \in Workers |->
                 IF w = ProcessList[k] THEN sig[w] \/ live[w] ELSE sig[w]]
    /\ Handled(<<"terminate">>, k)
    /\ UNCHANGED <<tasks, results, outq, chan, wait, pc, held, live, feed,
                   torn, collected, enq, pulled, sent, midjob, restored,
                   pushed, drained>>

\* lines 87-89: one terminate() after the other
DoTerminate == \E k \in 1..Len(ProcessList) : DoTerminateProc(k)

\* An enable without the name test of line 93: `resume` goes to every worker.
DoEnableEveryone(who) ==
    /\ Typed(<<"enable", who>>)
    /\ SendTo(Workers, "resume")
    /\ UNCHANGED <<tasks, results, outq, wait, pc, held, live, sig, feed,
                   torn, nxt, collected, enq, pulled, restored, pushed,
                   drained>>

\* lines 91-94
DoEnable(who) ==
    /\ Typed(<<"enable", who>>)
    /\ SendTo({w \in Workers : w = who}, "resume")
    /\ UNCHANGED <<tasks, results, outq, wait, pc, held, live, sig, feed,
                   torn, nxt, collected, enq, pulled, restored, pushed,
                   drained>>

\* lines 96-99
DoDisable(who) ==
    /\ Typed(<<"disable", who>>)
    /\ SendTo({w \in Workers : w = who}, "wait")
    /\ UNCHANGED <<tasks, results, outq, wait, pc, held, live, sig, feed,
                   torn, nxt, collected, enq, pulled, restored, pushed,
                   drained>>

\* lines 132, 151-153: onecmd() raises.  No except clause catches it: the
\* finally clause restores the terminal and the exception leaves listen_loop.
Raised ==
    /\ lpc = "input"
    /\ ndisp < MaxCmds
    /\ ndisp' = ndisp + 1
    /\ restored' = restored + 1
    /\ lpc' = "raised"

\* lines 83-85, 132: do_quit's k-th proc[1].send('end') raises, the process
\* at the other end having exited; the workers before it in process_list
\* have been sent `end`.
QuitRaise(k) ==
    /\ AtProc("quit", k)
    /\ ~live[ProcessList[k]]
    /\ ndisp' = ndisp + 1
    /\ restored' = restored + 1
    /\ lpc' = "raised"
    /\ nxt' = 0
    /\ UNCHANGED <<tasks, results, outq, chan, wait, pc, held, live, sig,
                   feed, torn, collected, enq, pulled, sent, midjob, lastcmd,
                   pushed, drained>>

\* lines 91-99, 132: the one send of do_enable(who) or do_disable(who)
\* raises, who's process having exited; nothing has been sent.
NamedRaise(who) ==
    /\ ~live[who]
    /\ Raised
    /\ UNCHANGED <<tasks, results, outq, chan, wait, pc, held, live, sig,
                   feed, torn, nxt, collected, enq, pulled, sent, midjob,
                   lastcmd, pushed, drained>>

\* lines 132, 151-153: a do_* method raises inside onecmd()
SendRaise ==
    \/ \E k \in 1..Len(ProcessList) : QuitRaise(k)
    \/ \E who \in Workers : NamedRaise(who)

\* lines 124-137 with no line completed in this iteration
NoInput ==
    /\ lpc = "input"
    /\ lpc' = "results"
    /\ UNCHANGED <<tasks, results, outq, chan, wait, pc, held, live, sig,
                   feed, torn, nxt, collected, ndisp, enq, pulled, sent,
                   midjob, restored, lastcmd, pushed, drained>>

\* lines 139-144: results_queue.get(False), then callback(r), or queue.Empty
\* (also when callback raises it); a get(False) that finds a torn message in
\* the pipe waits for the rest of it for ever.
PollResult ==
    /\ lpc = "results"
    /\ IF outq /\ results # <<>>
         THEN /\ collected' = Append(collected, Head(results))
              /\ results' = Tail(results)
              /\ lpc' = "alive"
         ELSE /\ lpc' = IF outq /\ torn THEN "hung" ELSE "alive"
              /\ UNCHANGED <<collected, results>>
    /\ lastcmd' = NoLine
    /\ UNCHANGED <<tasks, outq, chan, wait, pc, held, live, sig, feed, torn,
                   nxt, ndisp, enq, pulled, sent, midjob, restored, pushed,
                   drained>>

\* lines 146-156: break when the program has no active child (the finally
\* clause restores the terminal; return when there is no results queue),
\* otherwise sleep and go round.
CheckAliveWith(others) ==
    /\ lpc = "alive"
    /\ IF ActiveChildren(others) = {}
         THEN /\ restored' = restored + 1
              /\ lpc' = IF outq THEN "drain" ELSE "returned"
         ELSE /\ lpc' = "input"
              /\ UNCHANGED restored
    /\ UNCHANGED <<tasks, results, outq, chan, wait, pc, held, live, sig,
                   feed, torn, nxt, collected, ndisp, enq, pulled, sent,
                   midjob, lastcmd, pushed, drained>>

\* lines 146-150, whatever other children the program has at the time
CheckAlive == \E others \in SUBSET {OtherChild} : CheckAliveWith(others)

\* lines 162-167: one round of the final collection loop
Drain ==
    /\ lpc = "drain"
    /\ IF results # <<>>
         THEN /\ collected' = Append(collected, Head(results))
              /\ results' = Tail(results)
              /\ drained' = drained + 1
              /\ lpc' = lpc
         ELSE /\ lpc' = IF torn THEN "hung" ELSE "returned"
              /\ UNCHANGED <<collected, results, drained>>
    /\ UNCHANGED <<tasks, outq, chan, wait, pc, held, live, sig, feed, torn,
                   nxt, ndisp, enq, pulled, sent, midjob, restored, lastcmd,
                   pushed>>

\* A callback(r) called outside the try block: when it raises inside the
\* loop the terminal is not restored.
CallbackRaiseNoRestore ==
    /\ lpc \in {"results", "drain"}
    /\ outq
    /\ results # <<>>
    /\ collected' = Append(collected, Head(results))
    /\ results' = Tail(results)
    /\ drained' = IF lpc = "drain" THEN drained + 1 ELSE drained
    /\ lastcmd' = NoLine
    /\ lpc' = "raised"
    /\ UNCHANGED <<tasks, outq, chan, wait, pc, held, live, sig, feed, torn,
                   nxt, ndisp, enq, pulled, sent, midjob, restored, pushed>>

\* lines 141-142, 151-153 and 164-165: callback(r) raises, something other
\* than queue.Empty, on the result just taken from the queue.  Inside the
\* loop the finally clause restores the terminal; in the final collection it
\* has already run.  Either way the exception leaves listen_loop.
CallbackRaise ==
    /\ lpc \in {"results", "drain"}
    /\ outq
    /\ results # <<>>
    /\ collected' = Append(collected, Head(results))
    /\ results' = Tail(results)
    /\ drained' = IF lpc = "drain" THEN drained + 1 ELSE drained
    /\ restored' = IF lpc = "results" THEN restored + 1 ELSE restored
    /\ lastcmd' = NoLine
    /\ lpc' = "raised"
    /\ UNCHANGED <<tasks, outq, chan, wait, pc, held, live, sig, feed, torn,
                   nxt, ndisp, enq, pulled, sent, midjob, pushed>>

\* lines 164-167: callback(r) raises queue.Empty in the final collection;
\* the except clause of the collection takes it for the queue's and
\* listen_loop returns, whatever the queue still holds.
CallbackRaiseEmpty ==
    /\ lpc = "drain"
    /\ results # <<>>
    /\ collected' = Append(collected, Head(results))
    /\ results' = Tail(results)
    /\ drained' = drained + 1
    /\ lpc' = "returned"
    /\ UNCHANGED <<tasks, outq, chan, wait, pc, held, live, sig, feed, torn,
                   nxt, ndisp, enq, pulled, sent, midjob, restored, lastcmd,
                   pushed>>

----------------------------------------------------------------------------
WorkerStep(w) ==
    \/ LoopHead(w)
    \/ PollCmd(w)
    \/ GetTask(w)
    \/ JobReturn(w)
    \/ JobRaise(w)

\* What the process of w does around run(), and what is done to it.
ProcessStep(w) ==
    \/ Flush(w)
    \/ Exit(w)
    \/ Die(w)

Dispatch ==
    \/ DoList
    \/ DoDefault
    \/ DoQuit
    \/ DoTerminate
    \/ \E who \in Names : DoEnable(who)
    \/ \E who \in Names : DoDisable(who)

\* do_quit / do_terminate, begun, goes on to its next process.
DispatchOn ==
    /\ lpc \in {"quit", "terminate"}
    /\ \/ DoQuit
       \/ DoTerminate
       \/ \E k \in 1..Len(ProcessList) : QuitRaise(k)

\* What the controller's surroundings may do to it: a send that fails, a
\* callback that raises.
Fault ==
    \/ SendRaise
    \/ CallbackRaise
    \/ CallbackRaiseEmpty

ListenStep ==
    \/ NoInput
    \/ PollResult
    \/ CheckAlive
    \/ Drain

Next ==
    \/ \E w \in Workers : WorkerStep(w)
    \/ \E w \in Workers : ProcessStep(w)
    \/ Dispatch
    \/ Fault
    \/ ListenStep

Spec == Init /\ [][Next]_vars

\* The operating system schedules every live process and thread, and delivers
\* every signal: a worker that can step does, its feeder writes, a process
\* whose run() is over exits and a signalled process dies; listen_loop goes
\* on unless it is stuck in get(), and a do_quit or do_terminate that has
\* begun goes through process_list.  What the user types, and what other
\* children the program has, is not constrained.
FairSpec ==
    /\ Spec
    /\ \A w \in Workers : WF_vars(WorkerStep(w))
    /\ \A w \in Workers : WF_vars(Flush(w))
    /\ \A w \in Workers : WF_vars(Exit(w))
    /\ \A w \in Workers : WF_vars(Die(w))
    /\ WF_vars(ListenStep)
    /\ WF_vars(DispatchOn)

----------------------------------------------------------------------------
\* Vocabulary of the properties

\* The commands w has received from its pipe, in order.
Consumed(w) == SubSeq(sent[w], 1, Len(sent[w]) - Len(chan[w]))

\* w has received an `end`.
Ended(w) == "end" \in Range(Consumed(w))

\* All the tasks any worker has pulled.
AllPulled == UNION {Range(pulled[w]) : w \in Workers}

CountIn(s, x) == Cardinality({i \in 1..Len(s) : s[i] = x})

\* No job has raised and no process has been sent SIGTERM.
Undisturbed == \A w \in Workers : pc[w] # "failed" /\ ~sig[w]

\* How many times the result of task t was handed to put().
PutTimes(t) ==
    Cardinality({p \in Workers \X (1..NumTasks) :
                   p[2] <= Len(pushed[p[1]]) /\ pushed[p[1]][p[2]] = t})

\* The number of results equal to v handed to put().
PutCount(v) ==
    Cardinality({p \in Workers \X (1..NumTasks) :
                   p[2] <= Len(pushed[p[1]]) /\ Job(pushed[p[1]][p[2]]) = v})

\* The number of results equal to v that the feeders have yet to write.
FeedCount(v) ==
    Cardinality({p \in Workers \X (1..NumTasks) :
                   p[2] <= Len(feed[p[1]]) /\ feed[p[1]][p[2]] = v})

\* C1: no duplicate consumption.  Whatever the interleaving, no task is
\* delivered twice: two different pulls (by the same or by different
\* workers) never return the same task, and only enqueued tasks are pulled.
C1_NoDuplicatePull ==
    /\ \A w \in Workers : \A v \in Workers :
         \A i \in 1..Len(pulled[w]) : \A j \in 1..Len(pulled[v]) :
            (pulled[w][i] = pulled[v][j]) => (w = v /\ i = j)
    /\ AllPulled \subseteq 1..enq

\* Every enqueued task has been pulled and both workers pulled some.
C1_Witness ==
    /\ enq >= 2
    /\ AllPulled = 1..enq
    /\ \A w \in Workers : pulled[w] # <<>>

\* C2: completion multiset equality.  With a results queue, a job that never
\* raises, no terminate, a callback that does not raise and no `wait` or
\* `end` ever sent, the run finishes: the run() of every worker ends, and
\* callback is called with exactly the multiset of job(task) over the
\* enqueued tasks.
C2_Disturbed ==
    \/ ~outq
    \/ ~Undisturbed
    \/ lpc = "raised"
    \/ (lpc = "returned" /\ results # <<>>)
    \/ \E w \in Workers : Range(sent[w]) \cap {"wait", "end"} # {}

C2_Complete ==
    /\ \A w \in Workers : ~InRun(w)
    /\ \A v \in ResultValues :
         CountIn(collected, v) = Cardinality({t \in 1..enq : Job(t) = v})

C2_CompletionMultiset == <>(C2_Disturbed \/ C2_Complete)

\* C3: a new worker is Running.  A worker that has been sent no command and
\* finds the task queue non-empty goes on to pull a task when it leaves its
\* command check (unless the process is terminated there).
C3_StartsRunning ==
    [][\A w \in Workers :
         (sent[w] = <<>> /\ pc[w] = "poll" /\ pc'[w] # "poll")
            => pc'[w] \in {"get", "killed"}]_vars

\* C4: task conservation.  With a results queue, no job raising and no
\* terminate, whatever wait / resume / end commands are sent, every enqueued
\* task is in exactly one place: in the task queue, in flight in one worker,
\* or as one result: its result was put on the results queue once, and the
\* results put are, value by value, those with the feeders, in the pipe and
\* handed to callback.
C4_Places(t) ==
    CountIn(tasks, t)
    + Cardinality({w \in Workers : held[w] = t})
    + PutTimes(t)

C4_TaskConservation ==
    (outq /\ Undisturbed) =>
       /\ \A t \in 1..enq : C4_Places(t) = 1
       /\ \A v \in ResultValues :
             PutCount(v) =
                FeedCount(v) + CountIn(results, v) + CountIn(collected, v)

\* A worker that ran, was paused and was resumed is computing a task, while
\* an earlier result has reached callback.
C4_Witness ==
    /\ outq /\ Undisturbed
    /\ collected # <<>>
    /\ \E w \in Workers :
         /\ Consumed(w) = <<"resume", "wait", "resume">>
         /\ held[w] # NoTask

\* C5: cooperative end.  A worker that has received `end` is terminated (its
\* run() returned) and pulls nothing more; the tasks nobody pulled are all
\* still in the task queue, whose size is the number enqueued less the number
\* pulled.
C5_CooperativeEnd ==
    [][\A w \in Workers :
         Ended(w)' =>
            /\ pc'[w] = "done"
            /\ Ended(w) => pulled'[w] = pulled[w]
            /\ Range(tasks') = (1..enq) \ AllPulled'
            /\ Len(tasks') = enq - Cardinality(AllPulled')]_vars

\* One worker received `end` while Running, after pulling a task, the other
\* while Paused, and a task is still in the queue.
C5_Witness ==
    /\ tasks # <<>>
    /\ \E w \in Workers : \E v \in Workers :
         /\ Ended(w) /\ ~wait[w] /\ pulled[w] # <<>>
         /\ Ended(v) /\ wait[v]

\* C6: the emptiness check and the pull are one atomic operation, so no
\* worker is ever inside get() on an empty task queue (where, no task ever
\* being added, it would block for ever instead of terminating).
C6_NoBlockedPull ==
    \A w \in Workers : ~(pc[w] = "get" /\ tasks = <<>>)

\* C7: after quit() has sent `end` to every worker, the run() of every worker
\* eventually is over, whatever it was doing and whatever was pending on its
\* pipe (every job() call ends and every process is scheduled fairly).
C7_QuitSent == \A v \in Workers : "end" \in Range(sent[v])

C7_QuitTerminates == \A w \in Workers : C7_QuitSent ~> ~InRun(w)

\* C8 as claimed: from the moment `wait` is sent and until a later `resume`
\* is sent, the worker starts no new pull: it never leaves its command check
\* towards get().
C8_WaitStanding(w) ==
    \E i \in 1..Len(sent[w]) :
       /\ sent[w][i] = "wait"
       /\ \A j \in (i + 1)..Len(sent[w]) : sent[w][j] # "resume"

C8_StopsWhenSent ==
    [][\A w \in Workers :
         C8_WaitStanding(w) => ~(pc[w] = "poll" /\ pc'[w] = "get")]_vars

\* C8 as amended: from the moment the worker has received `wait` from its
\* pipe and until it receives a later `resume`, it is Paused, is neither
\* pulling nor computing, and pulls nothing; in particular a `wait` received
\* by a Paused worker leaves it Paused.
C8_WaitInForce(w) ==
    \E i \in 1..Len(Consumed(w)) :
       /\ Consumed(w)[i] = "wait"
       /\ \A j \in (i + 1)..Len(Consumed(w)) : Consumed(w)[j] # "resume"

C8_StopsWhenReceived ==
    [][\A w \in Workers :
         /\ C8_WaitInForce(w)' =>
               (wait'[w] /\ pc'[w] \notin {"get", "job"} /\ held'[w] = NoTask)
         /\ (C8_WaitInForce(w) /\ C8_WaitInForce(w)') => pulled'[w] = pulled[w]]_vars

\* A worker that ran and pulled a task has received `wait` and is Paused
\* while a task remains; and a Paused worker has received `wait`.
C8_Witness ==
    /\ tasks # <<>>
    /\ \E w \in Workers :
         /\ Consumed(w) = <<"resume", "wait">>
         /\ pulled[w] # <<>>
         /\ pc[w] = "poll"
    /\ \E v \in Workers : Consumed(v) = <<"wait">>

\* C9: when the last two commands sent to a worker are `wait` then `resume`
\* (and it was never sent `end`), then, unless a later command is sent, the
\* task queue runs empty, its job raises or it is terminated, the worker
\* eventually has received them all, is Running and has pulled a task.  And a
\* `resume` received by a Running worker leaves it Running, on its way to pull.
C9_Reenabled(w) ==
    /\ Len(sent[w]) >= 2
    /\ sent[w][Len(sent[w]) - 1] = "wait"
    /\ sent[w][Len(sent[w])] = "resume"
    /\ "end" \notin Range(sent[w])

C9_PullsAgain(w) == chan[w] = <<>> /\ ~wait[w] /\ pc[w] = "job"

C9_ResumeResumes ==
    /\ \A w \in Workers :
         C9_Reenabled(w) ~>
            \/ C9_PullsAgain(w)
            \/ ~C9_Reenabled(w)
            \/ tasks = <<>>
            \/ pc[w] \in {"failed", "killed"}
    /\ [][\A w \in Workers :
           (/\ pc[w] = "poll" /\ ~wait[w]
            /\ chan[w] # <<>> /\ Head(chan[w]) = "resume"
            /\ chan'[w] = Tail(chan[w]))
              => (~wait'[w] /\ pc'[w] = "get")]_vars

\* A worker that pulled a task, was disabled and enabled again, has received
\* both commands and is computing its second task.
C9_Witness ==
    \E w \in Workers :
       /\ C9_Reenabled(w)
       /\ C9_PullsAgain(w)
       /\ Len(pulled[w]) = 2

\* C10: a command takes effect only between tasks.  While a worker computes
\* job() its pipe is not read and self._wait does not change; and whenever a
\* worker receives a command it holds no task and, with a results queue, it
\* has handed to put() the result of every task it has pulled.
C10_Receives(w) == Len(chan'[w]) < Len(chan[w])

C10_InFlightFirst ==
    [][\A w \in Workers :
         /\ pc[w] = "job" => (~C10_Receives(w) /\ wait'[w] = wait[w])
         /\ C10_Receives(w) =>
               /\ held[w] = NoTask
               /\ outq => pushed[w] = pulled[w]]_vars

\* A worker was sent `end` while it was computing, and has received it: its
\* task's result has been put on the results queue.
C10_Witness ==
    \E w \in Workers :
       /\ outq
       /\ w \in midjob
       /\ sent[w] = <<"resume", "end">>
       /\ Ended(w)
       /\ pulled[w] # <<>>
       /\ pushed[w] = pulled[w]

\* C11: terminate() destroys the workers and loses no result: every result
\* a worker has put on the results queue is still with its feeder, in the
\* pipe or with callback, and listen_loop never gets stuck reading the
\* results queue, so that it goes on to return with every such result given
\* to callback.
C11_TerminateKeepsResults ==
    /\ lpc # "hung"
    /\ \A v \in ResultValues :
         PutCount(v) =
            FeedCount(v) + CountIn(results, v) + CountIn(collected, v)

\* C12: final drain.  When listen_loop has returned normally with a results
\* queue, the queue is empty and callback has been called exactly once with
\* every result any worker put on it.
C12_FinalDrain ==
    (lpc = "returned" /\ outq) =>
       /\ results = <<>>
       /\ \A v \in ResultValues : CountIn(collected, v) = PutCount(v)

\* C13: listen_loop leaves its loop normally exactly when no worker is
\* alive: only its liveness check leaves the loop, only with zero live
\* workers, and a liveness check that finds zero live workers does leave it;
\* after a normal exit no worker is alive.
C13_InLoop == lpc \in {"input", "quit", "terminate", "results", "alive"}

C13_LeftNormally == lpc \in {"drain", "returned"}

C13_ExitIffNoneAlive ==
    [][/\ (C13_InLoop /\ C13_LeftNormally') =>
            (lpc = "alive" /\ LiveWorkers = {})
       /\ (lpc = "alive" /\ LiveWorkers = {} /\ lpc' # lpc) =>
            C13_LeftNormally'
       /\ C13_LeftNormally' => LiveWorkers' = {}]_vars

\* C14: terminal-mode restoration.  While listen_loop is in its loop the
\* saved settings have not been restored; once it has left the loop, by the
\* break, by an exception from onecmd() or by an exception from callback(),
\* termios.tcsetattr(.., old_settings) has run exactly once, and an exception
\* in the final collection does not run it again.
C14_RestoredOnce ==
    /\ C13_InLoop => restored = 0
    /\ lpc \in {"drain", "returned", "raised"} => restored = 1
    /\ restored <= 1

\* An exception has left the loop while a worker was still alive.
C14_Witness ==
    /\ lpc = "raised"
    /\ restored = 1
    /\ LiveWorkers # {}

\* listen_loop is at its input stage, a do_quit or do_terminate under way
\* included.
C15_Dispatching == lpc \in {"input", "quit", "terminate"}

\* listen_loop is still in its iteration.
C15_GoesOn == lpc \in {"input", "quit", "terminate", "results"}

\* C15: a fault raised while a command is dispatched is caught and does not
\* abort the loop: from its input stage, a do_quit or do_terminate under way
\* included, listen_loop always goes on to poll the results queue.
C15_DispatchFaultCaught ==
    [][C15_Dispatching => C15_GoesOn']_vars

\* C16: job failure.  When job() raises, run() is over for that worker; the
\* task queue, the results queue, the controller and every other worker (its
\* position, its pipe, its _wait, its task) are as they were, and the only
\* thing to observe is, once the process has exited, one fewer live worker.
\* No result is ever put for the task it was computing (the last it pulled)
\* and the task never returns to the task queue.
C16_Fails(w) == pc[w] # "failed" /\ pc'[w] = "failed"

C16_JobFailure ==
    [][\A w \in Workers :
         /\ C16_Fails(w) =>
               /\ pc[w] = "job"
               /\ \A v \in Workers \ {w} :
                     /\ pc'[v] = pc[v] /\ wait'[v] = wait[v]
                     /\ held'[v] = held[v]
               /\ UNCHANGED <<tasks, results, feed, pushed, collected, chan,
                              sent, live, lpc, lastcmd, restored, ndisp>>
         /\ (pc[w] = "failed" /\ live[w] /\ ~live'[w]) =>
               LiveWorkers' = LiveWorkers \ {w}
         /\ pc'[w] = "failed" =>
               /\ PutTimes(pulled[w][Len(pulled[w])])' = 0
               /\ pulled'[w][Len(pulled'[w])] \notin Range(tasks')]_vars

\* A worker's job raised while the other worker computes a task with a
\* command waiting on its pipe.
C16_Witness ==
    \E w \in Workers : \E v \in Workers \ {w} :
       /\ pc[w] = "failed"
       /\ pc[v] = "job"
       /\ chan[v] # <<>>

\* C17: enable(name) / disable(name) send `resume` / `wait` on the pipe of
\* the worker called name and on no other: the step appends the command to
\* that pipe, leaves every other pipe, every worker and both queues as they
\* were, and sends nothing at all when no worker is called name.
C17_Sends(verb, cmd) ==
    \A who \in Names :
       (lpc = "input" /\ lastcmd' = <<verb, who>>) =>
          /\ chan' = [v \in Workers |->
                        IF v = who THEN Append(chan[v], cmd) ELSE chan[v]]
          /\ sent' = [v \in Workers |->
                        IF v = who THEN Append(sent[v], cmd) ELSE sent[v]]
          /\ UNCHANGED <<pc, wait, held, live, sig, feed, tasks, results,
                         collected>>

C17_OnlyTheNamed ==
    [][C17_Sends("enable", "resume") /\ C17_Sends("disable", "wait")]_vars

\* disable("w1") has just sent `wait` to w1 while w2, untouched, computes a
\* task with a command of its own still on its pipe.
C17_Witness ==
    /\ lastcmd = <<"disable", "w1">>
    /\ chan["w1"] # <<>>
    /\ chan["w1"][Len(chan["w1"])] = "wait"
    /\ pc["w2"] = "job"
    /\ chan["w2"] # <<>>

\* C18: a Paused worker does not pull.  Every pull is made by a worker
\* whose _wait is False; one pass of the command check receives at most one
\* command, and when it leaves the worker Paused the worker goes back to the
\* loop test (or returns, on `end`) without touching the task queue; a worker
\* in get() or job() is never Paused.
C18_PausedNeverPulls ==
    [][\A w \in Workers :
         /\ pulled'[w] # pulled[w] => (~wait[w] /\ pc[w] = "get")
         /\ Len(chan'[w]) >= Len(chan[w]) - 1
         /\ (pc[w] = "poll" /\ pc'[w] # "poll" /\ wait'[w]) =>
               (pc'[w] \in {"head", "done", "killed"} /\ tasks' = tasks)
         /\ pc'[w] \in {"get", "job"} => ~wait'[w]]_vars

\* A worker that was never sent a command is at its command check, Paused,
\* with a task in the queue, while the other worker has pulled one.
C18_Witness ==
    \E w \in Workers : \E v \in Workers \ {w} :
       /\ sent[w] = <<>> /\ wait[w]
       /\ pc[w] = "poll"
       /\ tasks # <<>>
       /\ pulled[v] # <<>>

\* C19: a Paused worker whose loop test finds the task queue empty returns,
\* with no `resume` or `end`; and a Paused worker's run() never returns while
\* the task queue is non-empty unless it has just received `end`.
C19_PausedEndsWhenEmpty ==
    [][\A w \in Workers :
         /\ (wait[w] /\ pc[w] = "head" /\ tasks = <<>> /\ pc'[w] # "head") =>
               pc'[w] \in {"done", "killed"}
         /\ (wait[w] /\ pc[w] # "done" /\ pc'[w] = "done") =>
               \/ (pc[w] = "head" /\ tasks = <<>>)
               \/ (pc[w] = "poll" /\ chan[w] # <<>> /\ Head(chan[w]) = "end"
                     /\ chan'[w] = Tail(chan[w]))]_vars

\* A worker that was never sent a command has returned, still Paused, after
\* the other worker emptied the task queue.
C19_Witness ==
    \E w \in Workers :
       /\ sent[w] = <<>> /\ wait[w]
       /\ pc[w] = "done"
       /\ enq >= 1
       /\ tasks = <<>>

\* C20: commands are neither coalesced, dropped nor reordered.  What is on
\* a pipe is always the tail of what was sent on it, a pass of the command
\* check receives at most one command, and the worker's state is the result
\* of applying, in send order, the commands received so far to the initial
\* state: Terminated once `end` is among them, else Paused or Running after
\* the last `wait` or `resume`.
RECURSIVE C20_Apply(_, _)
C20_Apply(st, cmds) ==
    IF cmds = <<>> \/ st = "Terminated" THEN st
    ELSE C20_Apply(CASE Head(cmds) = "wait" -> "Paused"
                     [] Head(cmds) = "resume" -> "Running"
                     [] OTHER -> "Terminated",
                   Tail(cmds))

C20_InOrder(w) ==
    /\ Len(chan[w]) <= Len(sent[w])
    /\ chan[w] = SubSeq(sent[w], Len(sent[w]) - Len(chan[w]) + 1, Len(sent[w]))
    /\ LET st == C20_Apply("Paused", Consumed(w))
       IN /\ st = "Terminated" => pc[w] = "done"
          /\ st = "Paused" => wait[w]
          /\ st = "Running" => ~wait[w]

C20_NoCoalescing ==
    [][\A w \in Workers :
         /\ C20_InOrder(w)'
         /\ Len(chan'[w]) >= Len(chan[w]) - 1]_vars

\* Three commands were sent to a worker and it has received all three.
C20_Witness ==
    \E w \in Workers :
       /\ sent[w] = <<"resume", "wait", "end">>
       /\ chan[w] = <<>>
       /\ pc[w] = "done"
       /\ pulled[w] # <<>>

====
